---- MODULE Spec2Model ----
(***************************************************************************)
(* The content library of passersbyc/test: the import pipeline             *)
(* (src/src/cli/commands/import.py), the manifest exporter (toolboxs.py)   *)
(* and the manifest command (src/src/cli/commands/manifest.py), run        *)
(* through CLIApp.run (src/src/cli/core.py).                               *)
(*                                                                         *)
(* The file system is the state: the asset tree and the metadata tree      *)
(* under the library path, the directories created in them, and the        *)
(* manifest CSV under the project root.  Every command runs start to       *)
(* finish as one action.  An I/O call of a command may fail: the action    *)
(* takes the failing call as the input `fault`.  Where the interleaving of *)
(* two import processes matters, the stages of an import are the steps     *)
(* (SpecStages); the functions taken alone have specifications of their    *)
(* own.                                                                    *)
(***************************************************************************)
EXTENDS Integers, Sequences, FiniteSets, TLC

VARIABLES
    libKind,     \* config project_settings.library_path: "default" | "relative" | "outside"
    legacyMeta,  \* <project root>/library/.meta exists although library_path points elsewhere
    dirs,        \* directories that exist under the library path (paths of segments)
    assets,      \* asset tree: file path -> bytes
    sidecars,    \* metadata tree: file path -> sidecar document
    manifest,    \* the manifest file: [exists, lines]
    injected,    \* how many I/O calls failed so far: [write, other]
    ops,         \* number of commands run so far
    last,        \* what the last command did and returned
    sched,       \* how commands run: "atomic" | "sequential" | "interleaved" | "call"
    procs,       \* import processes run stage by stage: id -> position and locals
    call         \* the last call of a function taken alone: [fn, args, out]

vars == <<libKind, legacyMeta, dirs, assets, sidecars, manifest, injected, ops, last,
          sched, procs, call>>

fs == <<dirs, assets, sidecars, manifest>>

(***************************************************************************)
(* Bounds.                                                                 *)
(***************************************************************************)
MaxFaults == 1
MaxOps == 2
MaxRows == 3

\* Python's None
None == "None"

\* Source files offered to import: name = <<stem, suffix without the dot>>.
SourceFiles ==
    { [stem |-> "a", ext |-> "txt", content |-> "c1"],
      [stem |-> "a", ext |-> "txt", content |-> "c2"],
      [stem |-> "a", ext |-> "PDF", content |-> "c1"],
      [stem |-> "c", ext |-> "xyz", content |-> "c1"],
      [stem |-> "d", ext |-> "",    content |-> "c2"] }

\* Values of the options --author/--series/--tags/--source of one import
\* (tags as the pieces between the commas).
ImportOptions ==
    { [author |-> None,   series |-> None, tags |-> <<>>,              source |-> None],
      [author |-> "jane", series |-> "",   tags |-> <<"t1", "", "t2">>, source |-> "web"] }

\* The I/O call of an import that fails ("none": every call succeeds).
ImportFaults ==
    { "none", "hash", "read", "mkdir", "copy_open",
      "copy_partial", "sidecar_open", "sidecar_partial", "manifest_open",
      "manifest_partial" }

\* the failures of a copy, a sidecar write or a manifest write
WriteFaults ==
    { "copy_open", "copy_partial", "sidecar_open", "sidecar_partial",
      "manifest_open", "manifest_partial" }

\* the count of failures: of writes, and of the other calls
NoFailure == [write |-> 0, other |-> 0]
Failures(n) == n.write + n.other
Inject(n, fault) ==
    IF fault = "none" THEN n
    ELSE IF fault \in WriteFaults THEN [n EXCEPT !.write = @ + 1]
    ELSE [n EXCEPT !.other = @ + 1]

\* The I/O call of a manifest export that fails.
ExportFaults == { "none", "manifest_open", "manifest_partial" }

\* Output argument of the manifest command.
ManifestOutputs == { "csv_path", "absolute" }

(***************************************************************************)
(* Files and bytes.                                                        *)
(***************************************************************************)
\* what a copy that fails midway leaves at the target
Truncated == "cut"

\* hashlib.md5 of the bytes: distinct contents have distinct digests
MD5(c) ==
    CASE c = "c1" -> "h1" [] c = "c2" -> "h2" [] OTHER -> "hcut"

\* st_size of a file holding the bytes
StSize(c) ==
    CASE c = "c1" -> 5 [] c = "c2" -> 7 [] OTHER -> 2

\* str(n) for the sizes in use
Str(n) ==
    CASE n = 0 -> "0" [] n = 2 -> "2" [] n = 5 -> "5" [] n = 7 -> "7" [] OTHER -> "n"

\* Path.name of a source file: stem plus suffix
Name(f) == IF f.ext = "" THEN f.stem ELSE f.stem \o "." \o f.ext

\* str.lower() on the suffixes in use
Lower(s) == IF s = "PDF" THEN "pdf" ELSE s

\* config.json "filetype": extension -> category
filetype == [e \in {"txt", "pdf"} |-> "doc"]

\* determine_file_type falling back to a category instead of "unknown"
determine_file_type_default(f) ==
    LET ext_key == Lower(f.ext)
    IN  IF ext_key = "" THEN "unknown"
        ELSE IF ext_key \in DOMAIN filetype THEN filetype[ext_key]
        ELSE "doc"

\* determine_file_type: the category of a file name, "unknown" if none
determine_file_type(f) ==
    LET ext_key == Lower(f.ext)
    IN  IF ext_key = "" THEN "unknown"
        ELSE IF ext_key \in DOMAIN filetype THEN filetype[ext_key]
        ELSE "unknown"

\* generate_file_md5: the digest, "" when the file cannot be read
generate_file_md5(f, fault) ==
    IF fault = "hash" THEN "" ELSE MD5(f.content)

\* Python truthiness of an optional string argument
Truthy(s) == s # None /\ s # ""

(***************************************************************************)
(* Paths.  A directory is the sequence of its segments below the library   *)
(* path; a file is [dir, name].                                            *)
(***************************************************************************)
RECURSIVE JoinWith(_, _)
\* sep.join(seq)
JoinWith(seq, sep) ==
    IF Len(seq) = 0 THEN ""
    ELSE IF Len(seq) = 1 THEN seq[1]
    ELSE seq[1] \o sep \o JoinWith(Tail(seq), sep)

\* the library path relative to the project root (get_library_path)
LibDir == IF libKind = "default" THEN <<"library">> ELSE <<"other">>

\* mkdir(parents=True, exist_ok=True): the directory and every parent of it
MkdirParents(d, path) == d \cup { SubSeq(path, 1, k) : k \in 1..Len(path) }

\* _determine_storage_path that keeps the series name when the author is absent
determine_storage_path_keep_series(base_path, author, series) ==
    IF Truthy(author) /\ Truthy(series) THEN base_path \o <<author, series>>
    ELSE IF Truthy(author) THEN base_path \o <<author>>
    ELSE IF Truthy(series) THEN base_path \o <<series>>
    ELSE base_path

\* _determine_storage_path: the directory chosen for (author, series)
determine_storage_path(base_path, author, series) ==
    IF Truthy(author) /\ Truthy(series) THEN base_path \o <<author, series>>
    ELSE IF Truthy(author) /\ ~Truthy(series) THEN base_path \o <<author>>
    ELSE IF ~Truthy(author) /\ Truthy(series) THEN base_path \o <<"unsort">>
    ELSE base_path

\* a function with one more (or one replaced) entry
Put(fn, k, v) == [x \in DOMAIN fn \cup {k} |-> IF x = k THEN v ELSE fn[x]]

NoFiles == [x \in {} |-> None]

(***************************************************************************)
(* The manifest: a CSV file of lines, each line a tuple of text fields.    *)
(* The header names stand for the source's column titles, in its order:    *)
(* filename, author, series, tags, source, suffix, category, import time,  *)
(* file size, MD5, file path.                                              *)
(***************************************************************************)
headers ==
    << "filename", "author", "series", "tags", "source", "suffix", "category",
       "import_time", "file_size", "MD5", "file_path" >>

\* csv.writer's text of a field: None is written as the empty field
CsvText(v) == IF v = None THEN "" ELSE v

\* the column a csv.DictReader gives the name, 0 when the header lacks it
ColumnOf(fieldnames, name) ==
    LET I == { i \in 1..Len(fieldnames) : fieldnames[i] = name }
    IN  IF I = {} THEN 0 ELSE CHOOSE i \in I : \A j \in I : i <= j

\* row.get(name, default) of a csv.DictReader row
RowGet(fieldnames, row, name, default) ==
    LET i == ColumnOf(fieldnames, name)
    IN  IF i = 0 THEN default
        ELSE IF i > Len(row) THEN None
        ELSE row[i]

\* the rows a csv.DictReader yields: every line after the first
DataRows(mf) == IF Len(mf.lines) = 0 THEN <<>> ELSE Tail(mf.lines)

NoMatch == [is_dup |-> FALSE, dup_name |-> ""]

\* _check_duplicate comparing the digest with the wrong column
check_duplicate_wrong_column(file_md5, mf, fault) ==
    IF file_md5 = "" \/ ~mf.exists \/ fault = "read" \/ Len(mf.lines) = 0 THEN NoMatch
    ELSE LET fieldnames == mf.lines[1]
             rows == Tail(mf.lines)
             hits == { i \in 1..Len(rows) :
                         RowGet(fieldnames, rows[i], "file_path", None) = file_md5 }
         IN  IF hits = {} THEN NoMatch
             ELSE LET i == CHOOSE h \in hits : \A j \in hits : h <= j
                  IN  [is_dup |-> TRUE,
                       dup_name |-> RowGet(fieldnames, rows[i], "filename", "unknown")]

\* _check_duplicate returning the filename of the last matching row
check_duplicate_last_match(file_md5, mf, fault) ==
    IF file_md5 = "" \/ ~mf.exists \/ fault = "read" \/ Len(mf.lines) = 0 THEN NoMatch
    ELSE LET fieldnames == mf.lines[1]
             rows == Tail(mf.lines)
             hits == { i \in 1..Len(rows) :
                         RowGet(fieldnames, rows[i], "MD5", None) = file_md5 }
         IN  IF hits = {} THEN NoMatch
             ELSE LET i == CHOOSE h \in hits : \A j \in hits : h >= j
                  IN  [is_dup |-> TRUE,
                       dup_name |-> RowGet(fieldnames, rows[i], "filename", "unknown")]

\* _check_duplicate that goes on to match after a failed read
check_duplicate_despite_read_error(file_md5, mf, fault) ==
    IF file_md5 = "" \/ ~mf.exists \/ Len(mf.lines) = 0 THEN NoMatch
    ELSE LET fieldnames == mf.lines[1]
             rows == Tail(mf.lines)
             hits == { i \in 1..Len(rows) :
                         RowGet(fieldnames, rows[i], "MD5", None) = file_md5 }
         IN  IF hits = {} THEN NoMatch
             ELSE LET i == CHOOSE h \in hits : \A j \in hits : h <= j
                  IN  [is_dup |-> TRUE,
                       dup_name |-> RowGet(fieldnames, rows[i], "filename", "unknown")]

\* _check_duplicate that never finds a row
check_duplicate_never(file_md5, mf, fault) == NoMatch

\* _check_duplicate without the early return for an empty digest
check_duplicate_matching_empty(file_md5, mf, fault) ==
    IF ~mf.exists THEN NoMatch
    ELSE IF fault = "read" THEN NoMatch
    ELSE IF Len(mf.lines) = 0 THEN NoMatch
    ELSE LET fieldnames == mf.lines[1]
             rows == Tail(mf.lines)
             hits == { i \in 1..Len(rows) :
                         RowGet(fieldnames, rows[i], "MD5", None) = file_md5 }
         IN  IF hits = {} THEN NoMatch
             ELSE LET i == CHOOSE h \in hits : \A j \in hits : h <= j
                  IN  [is_dup |-> TRUE,
                       dup_name |-> RowGet(fieldnames, rows[i], "filename", "unknown")]

\* _check_duplicate: (is_dup, dup_name) for a digest
check_duplicate(file_md5, mf, fault) ==
    IF file_md5 = "" THEN NoMatch
    ELSE IF ~mf.exists THEN NoMatch
    ELSE IF fault = "read" THEN NoMatch
    ELSE IF Len(mf.lines) = 0 THEN NoMatch
    ELSE LET fieldnames == mf.lines[1]
             rows == Tail(mf.lines)
             hits == { i \in 1..Len(rows) :
                         RowGet(fieldnames, rows[i], "MD5", None) = file_md5 }
         IN  IF hits = {} THEN NoMatch
             ELSE LET i == CHOOSE h \in hits : \A j \in hits : h <= j
                  IN  [is_dup |-> TRUE,
                       dup_name |-> RowGet(fieldnames, rows[i], "filename", "unknown")]

(***************************************************************************)
(* Sidecars.  A sidecar document is [ok |-> TRUE, meta |-> record], or     *)
(* [ok |-> FALSE] when a failed write left a file json.load cannot parse.  *)
(***************************************************************************)
\* time.strftime(...) of the wall clock: one reading stands for all
import_time == "now"

\* _parse_tags on the comma-separated pieces: blank pieces are dropped
parse_tags(pieces) == SelectSeq(pieces, LAMBDA t : t # "")

\* the metadata dict _create_metadata_json builds
create_metadata(f, args, target_path, target_bytes, file_md5) ==
    [ original_filename |-> Name(f),
      author    |-> IF Truthy(args.author) THEN args.author ELSE None,
      series    |-> IF Truthy(args.series) THEN args.series ELSE None,
      tags      |-> parse_tags(args.tags),
      source    |-> IF Truthy(args.source) THEN args.source ELSE None,
      file_type |-> f.ext,
      type      |-> determine_file_type(f),
      import_time |-> import_time,
      file_size |-> StSize(target_bytes),
      md5       |-> file_md5,
      file_path |-> JoinWith(LibDir \o target_path.dir \o <<target_path.name>>, "/") ]

\* what the write of _create_metadata_json leaves in the metadata tree
write_sidecar(tree, json_file_path, metadata, fault) ==
    IF fault = "sidecar_open" THEN tree
    ELSE IF fault = "sidecar_partial" THEN Put(tree, json_file_path, [ok |-> FALSE])
    ELSE Put(tree, json_file_path, [ok |-> TRUE, meta |-> metadata])

(***************************************************************************)
(* export_library_manifest (bootstrap export).                             *)
(***************************************************************************)
\* the tree export_library_manifest scans: <project root>/library/.meta
ExportTree(tree) == IF libKind = "default" THEN tree ELSE NoFiles

ExportTreeExists(d) == IF libKind = "default" THEN <<".meta">> \in d ELSE legacyMeta

\* the row export_library_manifest builds from a parsed sidecar
export_row(meta) ==
    << CsvText(meta.original_filename), CsvText(meta.author), CsvText(meta.series),
       JoinWith(meta.tags, ","), CsvText(meta.source), CsvText(meta.file_type),
       CsvText(meta.type), CsvText(meta.import_time), Str(meta.file_size),
       CsvText(meta.md5), CsvText(meta.file_path) >>

RECURSIVE Orders(_)
\* every order in which rglob may yield the files of a set
Orders(S) ==
    IF S = {} THEN { <<>> }
    ELSE UNION { { <<x>> \o o : o \in Orders(S \ {x}) } : x \in S }

\* the sidecars json.load parses; the others are skipped with a warning
Parseable(tree) == { p \in DOMAIN tree : tree[p].ok }

\* data_rows, for each order of enumeration
export_rows(tree) ==
    { [i \in 1..Len(o) |-> export_row(tree[o[i]].meta)] : o \in Orders(Parseable(tree)) }

\* export_library_manifest: the possible (manifest file, result) pairs
export_library_manifest(mf, tree, tree_exists, fault) ==
    IF ~tree_exists THEN { [manifest |-> mf, result |-> "error_nodir"] }
    ELSE IF fault = "manifest_open" THEN { [manifest |-> mf, result |-> "error_write"] }
    ELSE IF fault = "manifest_partial" THEN
        { [manifest |-> [exists |-> TRUE, lines |-> SubSeq(<<headers>> \o rows, 1, k)],
           result |-> "error_write"] : rows \in export_rows(tree), k \in {0, 1} }
    ELSE { [manifest |-> [exists |-> TRUE, lines |-> <<headers>> \o rows],
            result |-> "ok"] : rows \in export_rows(tree) }

(***************************************************************************)
(* _supplement_csv (ManifestUpdate).                                       *)
(***************************************************************************)
\* the row of _supplement_csv with the fingerprint and the path exchanged
append_row_exchanged(metadata) ==
    << CsvText(metadata.original_filename), CsvText(metadata.author),
       CsvText(metadata.series), JoinWith(metadata.tags, ","), CsvText(metadata.source),
       CsvText(metadata.file_type), CsvText(metadata.type), CsvText(metadata.import_time),
       Str(metadata.file_size), CsvText(metadata.file_path), CsvText(metadata.md5) >>

\* the row _supplement_csv appends for the imported metadata
append_row(metadata) ==
    << CsvText(metadata.original_filename), CsvText(metadata.author),
       CsvText(metadata.series), JoinWith(metadata.tags, ","), CsvText(metadata.source),
       CsvText(metadata.file_type), CsvText(metadata.type), CsvText(metadata.import_time),
       Str(metadata.file_size), CsvText(metadata.md5), CsvText(metadata.file_path) >>

\* _supplement_csv writing the header on every append
supplement_csv_always_header(mf, metadata, tree, tree_exists, fault) ==
    IF ~mf.exists THEN
        { [manifest |-> e.manifest, msg |-> "csv_exported", ok |-> e.result = "ok"] :
            e \in export_library_manifest(mf, tree, tree_exists, fault) }
    ELSE IF fault = "manifest_open" THEN
        { [manifest |-> mf, msg |-> "csv_fail", ok |-> FALSE] }
    ELSE IF fault = "manifest_partial" THEN
        { [manifest |-> [mf EXCEPT !.lines = mf.lines \o <<headers>>],
           msg |-> "csv_fail", ok |-> FALSE] }
    ELSE
        { [manifest |-> [mf EXCEPT !.lines =
                            mf.lines \o <<headers>> \o <<append_row(metadata)>>],
           msg |-> "csv_updated", ok |-> TRUE] }

\* _supplement_csv: the possible (manifest file, message, ok) triples
supplement_csv(mf, metadata, tree, tree_exists, fault) ==
    IF ~mf.exists THEN
        { [manifest |-> e.manifest, msg |-> "csv_exported", ok |-> e.result = "ok"] :
            e \in export_library_manifest(mf, tree, tree_exists, fault) }
    ELSE IF fault = "manifest_open" THEN
        { [manifest |-> mf, msg |-> "csv_fail", ok |-> FALSE] }
    ELSE IF fault = "manifest_partial" THEN
        { [manifest |-> [mf EXCEPT !.lines =
                            IF Len(mf.lines) = 0 THEN <<headers>> ELSE mf.lines],
           msg |-> "csv_fail", ok |-> FALSE] }
    ELSE
        { [manifest |-> [mf EXCEPT !.lines =
                            (IF Len(mf.lines) = 0 THEN <<headers>> ELSE mf.lines)
                                \o <<append_row(metadata)>>],
           msg |-> "csv_updated", ok |-> TRUE] }

(***************************************************************************)
(* The commands, as CLIApp.run runs them.                                  *)
(***************************************************************************)
NoFile == [stem |-> "", ext |-> "", content |-> ""]

\* no import process, no call of a function taken alone
NoProcs == [p \in {} |-> None]

NoCall == [fn |-> "none", args |-> <<>>, fault |-> "none", out |-> <<>>, raised |-> FALSE]

\* the record of a command that has not run
NoCmd ==
    [ cmd |-> "none", file |-> NoFile, fault |-> "none",
      md5 |-> "", is_dup |-> FALSE, dup_name |-> "",
      outcome |-> "none", msgs |-> {}, raised |-> FALSE,
      returns_int |-> TRUE, exit |-> 0 ]

\* CLIApp.run without its handler: the exception leaves run
CLIApp_run_unhandled(r) ==
    IF r.raised THEN [r EXCEPT !.returns_int = FALSE] ELSE r

\* CLIApp.run around command.execute: an exception out of execute is
\* printed and becomes the return value 1
CLIApp_run(r) ==
    IF r.raised THEN [r EXCEPT !.exit = 1, !.msgs = r.msgs \cup {"run_error"}] ELSE r

\* ImportCommand.execute under CLIApp.run, for a source file, its options
\* and the I/O call that fails
Import(f, args, fault) ==
    LET file_md5 == generate_file_md5(f, fault)
        dup == check_duplicate(file_md5, manifest, fault)
        file_type == determine_file_type(f)
        current_path == determine_storage_path(<<file_type>>, args.author, args.series)
        json_folder == determine_storage_path(<<".meta", file_type>>, args.author, args.series)
        json_file_path == [dir |-> json_folder, name |-> f.stem \o ".json"]
        target_path == [dir |-> current_path, name |-> Name(f)]
        dirs1 == MkdirParents(dirs, current_path)
        dirs2 == MkdirParents(dirs1, json_folder)
        copied == Put(assets, target_path, f.content)
        metadata == create_metadata(f, args, target_path, copied[target_path], file_md5)
        written == write_sidecar(sidecars, json_file_path, metadata, fault)
        warn == (IF fault = "hash" THEN {"md5_error"} ELSE {})
                  \cup (IF fault = "read" /\ file_md5 # "" /\ manifest.exists
                        THEN {"read_warning"} ELSE {})
        run == [NoCmd EXCEPT !.cmd = "import", !.file = f, !.fault = fault,
                             !.md5 = file_md5,
                             !.is_dup = dup.is_dup, !.dup_name = dup.dup_name,
                             !.msgs = warn]
    IN  /\ ops < MaxOps
        /\ ops' = ops + 1
        /\ fault # "none" => Failures(injected) < MaxFaults
        /\ injected' = Inject(injected, fault)
        /\ UNCHANGED <<libKind, legacyMeta, sched, procs, call>>
        /\ IF dup.is_dup THEN
               /\ last' = CLIApp_run([run EXCEPT !.outcome = "duplicate", !.exit = 0,
                                      !.msgs = warn \cup {"dup"}])
               /\ UNCHANGED fs
           ELSE IF file_type = "unknown" THEN
               /\ last' = CLIApp_run([run EXCEPT !.outcome = "unknown", !.exit = 1,
                                      !.msgs = warn \cup {"unknown_type"}])
               /\ UNCHANGED fs
           ELSE IF fault = "mkdir" THEN
               \* the second _determine_storage_path raises out of execute
               /\ last' = CLIApp_run([run EXCEPT !.outcome = "path_error", !.raised = TRUE])
               /\ dirs' = dirs1
               /\ UNCHANGED <<assets, sidecars, manifest>>
           ELSE IF fault = "copy_open" THEN
               /\ last' = CLIApp_run([run EXCEPT !.outcome = "copy_error", !.exit = 1,
                                     !.msgs = warn \cup {"import_fail"}])
               /\ dirs' = dirs2
               /\ UNCHANGED <<assets, sidecars, manifest>>
           ELSE IF fault = "copy_partial" THEN
               /\ last' = CLIApp_run([run EXCEPT !.outcome = "copy_error", !.exit = 1,
                                     !.msgs = warn \cup {"import_fail"}])
               /\ dirs' = dirs2
               /\ assets' = Put(assets, target_path, Truncated)
               /\ UNCHANGED <<sidecars, manifest>>
           ELSE IF libKind = "outside" THEN
               \* target_file.relative_to(get_project_root()) raises ValueError
               /\ last' = CLIApp_run([run EXCEPT !.outcome = "metadata_error", !.exit = 1,
                                     !.msgs = warn \cup {"copied", "import_fail"}])
               /\ dirs' = dirs2
               /\ assets' = copied
               /\ UNCHANGED <<sidecars, manifest>>
           ELSE IF fault \in {"sidecar_open", "sidecar_partial"} THEN
               /\ last' = CLIApp_run([run EXCEPT !.outcome = "sidecar_error", !.exit = 0,
                                     !.msgs = warn \cup {"copied", "json_fail"}])
               /\ dirs' = dirs2
               /\ assets' = copied
               /\ sidecars' = written
               /\ UNCHANGED manifest
           ELSE
               /\ dirs' = dirs2
               /\ assets' = copied
               /\ sidecars' = written
               /\ \E s \in supplement_csv(manifest, metadata, ExportTree(written),
                                          ExportTreeExists(dirs2), fault) :
                     /\ manifest' = s.manifest
                     /\ last' = CLIApp_run([run EXCEPT
                                   !.outcome = IF s.ok THEN "done" ELSE "manifest_error",
                                   !.exit = 0,
                                   !.msgs = warn \cup {"copied", "json_ok", s.msg}])

\* ManifestCommand.execute under CLIApp.run, for an output argument
ManifestCmd(output, fault) ==
    LET run == [NoCmd EXCEPT !.cmd = "manifest", !.fault = fault]
    IN  /\ ops < MaxOps
        /\ ops' = ops + 1
        /\ fault # "none" => Failures(injected) < MaxFaults
        /\ injected' = Inject(injected, fault)
        /\ UNCHANGED <<libKind, legacyMeta, dirs, assets, sidecars, sched, procs, call>>
        /\ IF output = "absolute" \/ manifest.exists THEN
               \* no branch returns: execute falls off its end
               /\ last' = CLIApp_run([run EXCEPT !.outcome = "nothing", !.returns_int = FALSE])
               /\ UNCHANGED manifest
           ELSE
               \E e \in export_library_manifest(manifest, ExportTree(sidecars),
                                                ExportTreeExists(dirs), fault) :
                  /\ manifest' = e.manifest
                  /\ last' = CLIApp_run(
                                IF e.result = "ok"
                                THEN [run EXCEPT !.outcome = "exported", !.exit = 0,
                                                 !.msgs = {"manifest_ok"}]
                                ELSE [run EXCEPT !.outcome = e.result, !.exit = 1,
                                                 !.msgs = {"manifest_error"}])

Init ==
    /\ libKind \in {"default", "relative", "outside"}
    /\ legacyMeta \in IF libKind = "default" THEN {FALSE} ELSE BOOLEAN
    /\ dirs = {}
    /\ assets = NoFiles
    /\ sidecars = NoFiles
    /\ manifest = [exists |-> FALSE, lines |-> <<>>]
    /\ injected = NoFailure
    /\ ops = 0
    /\ last = NoCmd
    /\ sched = "atomic"
    /\ procs = NoProcs
    /\ call = NoCall

Next ==
    \/ \E f \in SourceFiles, args \in ImportOptions, fault \in ImportFaults :
          Import(f, args, fault)
    \/ \E output \in ManifestOutputs, fault \in ExportFaults :
          ManifestCmd(output, fault)

Spec == Init /\ [][Next]_vars

\* Imports alone, one after the other.
NextImports ==
    \E f \in SourceFiles, args \in ImportOptions, fault \in ImportFaults :
        Import(f, args, fault)

SpecImports == Init /\ [][NextImports]_vars

(***************************************************************************)
(* Import processes run stage by stage.  Each process is one run of        *)
(* ImportCommand.execute in a process of its own; a step is one stage of   *)
(* it, with the I/O calls of the stage.  The bootstrap export is two       *)
(* steps: the scan of the metadata tree, then the write of the CSV.        *)
(* "sequential": a process starts when the one before it has ended.        *)
(***************************************************************************)
Procs == {1, 2}

Ended == {"Done", "Aborted"}

\* a process about to run execute(args)
NewProc(f, args) ==
    [ pc |-> "Hashing", file |-> f, args |-> args, md5 |-> "",
      is_dup |-> FALSE, dup_name |-> "", file_type |-> "",
      metadata |-> <<>>, rows |-> <<>>, stages |-> <<>>,
      outcome |-> "none", msgs |-> {}, raised |-> FALSE, exit |-> 0 ]

\* the directories and the file paths execute derives (lines 221-232)
CurrentPath(r) == determine_storage_path(<<r.file_type>>, r.args.author, r.args.series)

\* a metadata directory that leaves the author and the series out
JsonFolder_flat(r) == <<".meta", r.file_type>>

JsonFolder(r) == determine_storage_path(<<".meta", r.file_type>>, r.args.author, r.args.series)

JsonFilePath(r) == [dir |-> JsonFolder(r), name |-> r.file.stem \o ".json"]

TargetPath(r) == [dir |-> CurrentPath(r), name |-> Name(r.file)]

\* the process may take a step
Runnable(p) ==
    /\ sched \in {"sequential", "interleaved"}
    /\ p \in DOMAIN procs
    /\ procs[p].pc \notin Ended
    /\ sched = "sequential" => \A q \in DOMAIN procs : q < p => procs[q].pc \in Ended

\* one I/O call of the step fails, within the budget of failures
Fails(fault) ==
    /\ fault # "none" => Failures(injected) < MaxFaults
    /\ injected' = Inject(injected, fault)

\* the process goes on to the next stage / returns from CLIApp.run
Goes(p, r) == procs' = [procs EXCEPT ![p] = r]
Returns(p, r, pc) == procs' = [procs EXCEPT ![p] = CLIApp_run([r EXCEPT !.pc = pc])]

\* the CSV that lines 203-210 of export_library_manifest leave
write_manifest_csv(mf, rows, fault) ==
    IF fault = "manifest_open" THEN { [manifest |-> mf, result |-> "error_write"] }
    ELSE IF fault = "manifest_partial" THEN
        { [manifest |-> [exists |-> TRUE, lines |-> SubSeq(<<headers>> \o rows, 1, k)],
           result |-> "error_write"] : k \in {0, 1} }
    ELSE { [manifest |-> [exists |-> TRUE, lines |-> <<headers>> \o rows],
            result |-> "ok"] }

StageHashing(p, fault) ==
    LET r == procs[p]
    IN  /\ Runnable(p) /\ r.pc = "Hashing"
        /\ fault \in {"none", "hash"} /\ Fails(fault)
        /\ Goes(p, [r EXCEPT !.pc = "DuplicateCheck",
                             !.stages = Append(@, "Hashing"),
                             !.md5 = generate_file_md5(r.file, fault),
                             !.msgs = IF fault = "hash" THEN {"md5_error"} ELSE {}])
        /\ UNCHANGED <<libKind, legacyMeta, fs, ops, last, sched, call>>

StageDuplicateCheck(p, fault) ==
    LET r == procs[p]
        dup == check_duplicate(r.md5, manifest, fault)
        warn == IF fault = "read" /\ r.md5 # "" /\ manifest.exists
                THEN {"read_warning"} ELSE {}
        r1 == [r EXCEPT !.stages = Append(@, "DuplicateCheck"),
                        !.is_dup = dup.is_dup, !.dup_name = dup.dup_name,
                        !.msgs = @ \cup warn]
    IN  /\ Runnable(p) /\ r.pc = "DuplicateCheck"
        /\ fault \in {"none", "read"} /\ Fails(fault)
        /\ IF dup.is_dup
           THEN Returns(p, [r1 EXCEPT !.outcome = "duplicate", !.exit = 0,
                                      !.msgs = @ \cup {"dup"}], "Aborted")
           ELSE Goes(p, [r1 EXCEPT !.pc = "Classifying"])
        /\ UNCHANGED <<libKind, legacyMeta, fs, ops, last, sched, call>>

StageClassifying(p) ==
    LET r == procs[p]
        r1 == [r EXCEPT !.stages = Append(@, "Classifying"),
                        !.file_type = determine_file_type(r.file)]
    IN  /\ Runnable(p) /\ r.pc = "Classifying"
        /\ IF r1.file_type = "unknown"
           THEN Returns(p, [r1 EXCEPT !.outcome = "unknown", !.exit = 1,
                                      !.msgs = @ \cup {"unknown_type"}], "Aborted")
           ELSE Goes(p, [r1 EXCEPT !.pc = "PathResolution"])
        /\ UNCHANGED <<libKind, legacyMeta, fs, injected, ops, last, sched, call>>

StagePathResolution(p, fault) ==
    LET r == procs[p]
        r1 == [r EXCEPT !.stages = Append(@, "PathResolution")]
        dirs1 == MkdirParents(dirs, CurrentPath(r))
        dirs2 == MkdirParents(dirs1, JsonFolder(r))
    IN  /\ Runnable(p) /\ r.pc = "PathResolution"
        /\ fault \in {"none", "mkdir"} /\ Fails(fault)
        /\ IF fault = "mkdir"
           THEN /\ dirs' = dirs1
                /\ Returns(p, [r1 EXCEPT !.outcome = "path_error", !.raised = TRUE], "Aborted")
           ELSE /\ dirs' = dirs2
                /\ Goes(p, [r1 EXCEPT !.pc = "Copying"])
        /\ UNCHANGED <<libKind, legacyMeta, assets, sidecars, manifest, ops, last, sched, call>>

\* the copy stage returning 0 after a failed copy
StageCopying_returns_zero(p, fault) ==
    LET r == procs[p]
        r1 == [r EXCEPT !.stages = Append(@, "Copying")]
    IN  /\ Runnable(p) /\ r.pc = "Copying"
        /\ fault \in {"none", "copy_open", "copy_partial"} /\ Fails(fault)
        /\ IF fault = "none"
           THEN /\ assets' = Put(assets, TargetPath(r), r.file.content)
                /\ Goes(p, [r1 EXCEPT !.pc = "MetadataWrite", !.msgs = @ \cup {"copied"}])
           ELSE /\ assets' = IF fault = "copy_partial"
                             THEN Put(assets, TargetPath(r), Truncated) ELSE assets
                /\ Returns(p, [r1 EXCEPT !.outcome = "copy_error", !.exit = 0,
                                         !.msgs = @ \cup {"import_fail"}], "Aborted")
        /\ UNCHANGED <<libKind, legacyMeta, dirs, sidecars, manifest, ops, last, sched, call>>

\* the copy stage going on to the metadata write after a failed copy
StageCopying_goes_on(p, fault) ==
    LET r == procs[p]
        r1 == [r EXCEPT !.stages = Append(@, "Copying")]
    IN  /\ Runnable(p) /\ r.pc = "Copying"
        /\ fault \in {"none", "copy_open", "copy_partial"} /\ Fails(fault)
        /\ IF fault = "none"
           THEN /\ assets' = Put(assets, TargetPath(r), r.file.content)
                /\ Goes(p, [r1 EXCEPT !.pc = "MetadataWrite", !.msgs = @ \cup {"copied"}])
           ELSE /\ assets' = IF fault = "copy_partial"
                             THEN Put(assets, TargetPath(r), Truncated) ELSE assets
                /\ Goes(p, [r1 EXCEPT !.pc = "MetadataWrite",
                                      !.msgs = @ \cup {"import_fail"}])
        /\ UNCHANGED <<libKind, legacyMeta, dirs, sidecars, manifest, ops, last, sched, call>>

StageCopying(p, fault) ==
    LET r == procs[p]
        r1 == [r EXCEPT !.stages = Append(@, "Copying")]
    IN  /\ Runnable(p) /\ r.pc = "Copying"
        /\ fault \in {"none", "copy_open", "copy_partial"} /\ Fails(fault)
        /\ IF fault = "none"
           THEN /\ assets' = Put(assets, TargetPath(r), r.file.content)
                /\ Goes(p, [r1 EXCEPT !.pc = "MetadataWrite", !.msgs = @ \cup {"copied"}])
           ELSE /\ assets' = IF fault = "copy_partial"
                             THEN Put(assets, TargetPath(r), Truncated) ELSE assets
                /\ Returns(p, [r1 EXCEPT !.outcome = "copy_error", !.exit = 1,
                                         !.msgs = @ \cup {"import_fail"}], "Aborted")
        /\ UNCHANGED <<libKind, legacyMeta, dirs, sidecars, manifest, ops, last, sched, call>>

\* the metadata write tried again after a failed write
StageMetadataWrite_retries(p, fault) ==
    LET r == procs[p]
        r1 == [r EXCEPT !.stages = Append(@, "MetadataWrite")]
        target_bytes == IF TargetPath(r) \in DOMAIN assets THEN assets[TargetPath(r)] ELSE ""
        metadata == create_metadata(r.file, r.args, TargetPath(r), target_bytes, r.md5)
    IN  /\ Runnable(p) /\ r.pc = "MetadataWrite"
        /\ fault \in {"none", "sidecar_open", "sidecar_partial"} /\ Fails(fault)
        /\ sidecars' = write_sidecar(sidecars, JsonFilePath(r), metadata, fault)
        /\ IF fault = "none"
           THEN Goes(p, [r1 EXCEPT !.pc = "ManifestUpdate", !.metadata = <<metadata>>,
                                   !.msgs = @ \cup {"json_ok"}])
           ELSE Goes(p, [r1 EXCEPT !.msgs = @ \cup {"json_fail"}])
        /\ UNCHANGED <<libKind, legacyMeta, dirs, assets, manifest, ops, last, sched, call>>

StageMetadataWrite(p, fault) ==
    LET r == procs[p]
        r1 == [r EXCEPT !.stages = Append(@, "MetadataWrite")]
        target_bytes == IF TargetPath(r) \in DOMAIN assets THEN assets[TargetPath(r)] ELSE ""
        metadata == create_metadata(r.file, r.args, TargetPath(r), target_bytes, r.md5)
    IN  /\ Runnable(p) /\ r.pc = "MetadataWrite"
        /\ fault \in {"none", "sidecar_open", "sidecar_partial"} /\ Fails(fault)
        /\ IF libKind = "outside"
           THEN \* target_file.relative_to(get_project_root()) raises ValueError
                /\ fault = "none"
                /\ UNCHANGED sidecars
                /\ Returns(p, [r1 EXCEPT !.outcome = "metadata_error", !.exit = 1,
                                         !.msgs = @ \cup {"import_fail"}], "Aborted")
           ELSE /\ sidecars' = write_sidecar(sidecars, JsonFilePath(r), metadata, fault)
                /\ IF fault = "none"
                   THEN Goes(p, [r1 EXCEPT !.pc = "ManifestUpdate", !.metadata = <<metadata>>,
                                           !.msgs = @ \cup {"json_ok"}])
                   ELSE Returns(p, [r1 EXCEPT !.outcome = "sidecar_error", !.exit = 0,
                                              !.msgs = @ \cup {"json_fail"}], "Done")
        /\ UNCHANGED <<libKind, legacyMeta, dirs, assets, manifest, ops, last, sched, call>>

\* _supplement_csv up to its write: the append when the manifest exists,
\* else the scan of export_library_manifest
StageManifestUpdate(p, fault) ==
    LET r == procs[p]
        r1 == [r EXCEPT !.stages = Append(@, "ManifestUpdate")]
    IN  /\ Runnable(p) /\ r.pc = "ManifestUpdate"
        /\ fault \in ExportFaults /\ Fails(fault)
        /\ IF manifest.exists
           THEN \E s \in supplement_csv(manifest, r.metadata[1], ExportTree(sidecars),
                                        ExportTreeExists(dirs), fault) :
                   /\ manifest' = s.manifest
                   /\ Returns(p, [r1 EXCEPT
                                    !.outcome = IF s.ok THEN "done" ELSE "manifest_error",
                                    !.exit = 0, !.msgs = @ \cup {s.msg}], "Done")
           ELSE /\ fault = "none"
                /\ UNCHANGED manifest
                /\ IF ~ExportTreeExists(dirs)
                   THEN Returns(p, [r1 EXCEPT !.outcome = "manifest_error", !.exit = 0,
                                              !.msgs = @ \cup {"csv_exported"}], "Done")
                   ELSE \E rows \in export_rows(ExportTree(sidecars)) :
                           Goes(p, [r1 EXCEPT !.pc = "BootstrapWrite", !.rows = rows])
        /\ UNCHANGED <<libKind, legacyMeta, dirs, assets, sidecars, ops, last, sched, call>>

\* the write of the rows the scan collected
StageBootstrapWrite(p, fault) ==
    LET r == procs[p]
    IN  /\ Runnable(p) /\ r.pc = "BootstrapWrite"
        /\ fault \in ExportFaults /\ Fails(fault)
        /\ \E w \in write_manifest_csv(manifest, r.rows, fault) :
              /\ manifest' = w.manifest
              /\ Returns(p, [r EXCEPT
                               !.outcome = IF w.result = "ok" THEN "done" ELSE "manifest_error",
                               !.exit = 0, !.msgs = @ \cup {"csv_exported"}], "Done")
        /\ UNCHANGED <<libKind, legacyMeta, dirs, assets, sidecars, ops, last, sched, call>>

\* a fresh library, or one left by an import whose copy failed followed by
\* the manifest command: the directories and a manifest holding the header
InitStages ==
    /\ libKind \in {"default", "relative"}
    /\ legacyMeta = FALSE
    /\ \/ dirs = {} /\ manifest = [exists |-> FALSE, lines |-> <<>>]
       \/ /\ libKind = "default"
          /\ dirs = {<<"doc">>, <<".meta">>, <<".meta", "doc">>}
          /\ manifest = [exists |-> TRUE, lines |-> <<headers>>]
    /\ assets = NoFiles
    /\ sidecars = NoFiles
    /\ injected = NoFailure
    /\ ops = 0
    /\ last = NoCmd
    /\ sched \in {"sequential", "interleaved"}
    /\ procs \in [Procs -> {NewProc(f, args) : f \in SourceFiles, args \in ImportOptions}]
    /\ call = NoCall

NextStages ==
    \E p \in Procs :
        \/ \E fault \in ImportFaults :
              \/ StageHashing(p, fault)
              \/ StageDuplicateCheck(p, fault)
              \/ StagePathResolution(p, fault)
              \/ StageCopying(p, fault)
              \/ StageMetadataWrite(p, fault)
              \/ StageManifestUpdate(p, fault)
              \/ StageBootstrapWrite(p, fault)
        \/ StageClassifying(p)

SpecStages == InitStages /\ [][NextStages]_vars

(***************************************************************************)
(* One import taken alone, running to its end: execute is straight-line    *)
(* code, so the process always takes its next step.                        *)
(***************************************************************************)
InitOneImport ==
    /\ libKind \in {"default", "relative"}
    /\ legacyMeta = FALSE
    /\ \/ dirs = {} /\ manifest = [exists |-> FALSE, lines |-> <<>>]
       \/ /\ libKind = "default"
          /\ dirs = {<<"doc">>, <<".meta">>, <<".meta", "doc">>}
          /\ manifest = [exists |-> TRUE, lines |-> <<headers>>]
    /\ assets = NoFiles
    /\ sidecars = NoFiles
    /\ injected = NoFailure
    /\ ops = 0
    /\ last = NoCmd
    /\ sched = "sequential"
    /\ procs \in [{1} -> {NewProc(f, args) : f \in SourceFiles, args \in ImportOptions}]
    /\ call = NoCall

SpecOneImport == InitOneImport /\ [][NextStages]_vars /\ WF_vars(NextStages)

(***************************************************************************)
(* _determine_storage_path taken alone: calls on a directory tree that     *)
(* the earlier calls have left.                                            *)
(***************************************************************************)
\* base paths (category, and its mirror under .meta), authors and series
BasePaths == { <<"doc">>, <<".meta", "doc">> }
Authors == { None, "", "jane", "bob" }
SeriesNames == { None, "", "s1" }

\* the library with no command running: the functions are called alone
InitCalls ==
    /\ libKind = "default"
    /\ legacyMeta = FALSE
    /\ dirs = {}
    /\ assets = NoFiles
    /\ sidecars = NoFiles
    /\ manifest = [exists |-> FALSE, lines |-> <<>>]
    /\ injected = NoFailure
    /\ ops = 0
    /\ last = NoCmd
    /\ sched = "call"
    /\ procs = NoProcs
    /\ call = NoCall

\* one call of _determine_storage_path; mkdir may raise
ResolvePath(base_path, author, series, fault) ==
    LET target_path == determine_storage_path(base_path, author, series)
        this == [NoCall EXCEPT !.fn = "determine_storage_path",
                               !.args = <<base_path, author, series>>]
    IN  /\ sched = "call"
        /\ ops < MaxOps
        /\ ops' = ops + 1
        /\ fault \in {"none", "mkdir"} /\ Fails(fault)
        /\ IF fault = "mkdir"
           THEN /\ dirs' = dirs
                /\ call' = [this EXCEPT !.raised = TRUE]
           ELSE /\ dirs' = MkdirParents(dirs, target_path)
                /\ call' = [this EXCEPT !.out = <<target_path>>]
        /\ UNCHANGED <<libKind, legacyMeta, assets, sidecars, manifest, last, sched, procs>>

NextPaths ==
    \E base_path \in BasePaths, author \in Authors, series \in SeriesNames,
       fault \in {"none", "mkdir"} :
        ResolvePath(base_path, author, series, fault)

SpecPaths == InitCalls /\ [][NextPaths]_vars

(***************************************************************************)
(* _check_duplicate taken alone: calls on a manifest of up to MaxRows      *)
(* rows, each the row of an imported file, with the fingerprint of its     *)
(* bytes or, when hashing had failed, with none.                           *)
(***************************************************************************)
\* the recognized source files
Recognized == { f \in SourceFiles : determine_file_type(f) # "unknown" }

\* the row an import of f leaves, for the digest it computed
RowOf(f, file_md5) ==
    LET args == CHOOSE a \in ImportOptions : a.author = None
        target_path == [dir |-> <<determine_file_type(f)>>, name |-> Name(f)]
    IN  append_row(create_metadata(f, args, target_path, f.content, file_md5))

ManifestRows == UNION { { RowOf(f, MD5(f.content)), RowOf(f, "") } : f \in Recognized }

\* the manifests of n rows
ManifestsOf(n) ==
    { [exists |-> TRUE, lines |-> <<headers>> \o rows] : rows \in [1..n -> ManifestRows] }

InitDup ==
    /\ libKind = "default"
    /\ legacyMeta = FALSE
    /\ dirs = {}
    /\ assets = NoFiles
    /\ sidecars = NoFiles
    /\ manifest \in { [exists |-> FALSE, lines |-> <<>>], [exists |-> TRUE, lines |-> <<>>] }
                       \cup UNION { ManifestsOf(n) : n \in 0..MaxRows }
    /\ injected = NoFailure
    /\ ops = 0
    /\ last = NoCmd
    /\ sched = "call"
    /\ procs = NoProcs
    /\ call = NoCall

\* one call of _check_duplicate; the read of the manifest may fail
CheckDuplicate(file_md5, fault) ==
    /\ sched = "call"
    /\ ops < MaxOps
    /\ ops' = ops + 1
    /\ fault \in {"none", "read"} /\ Fails(fault)
    /\ call' = [NoCall EXCEPT !.fn = "check_duplicate", !.args = <<file_md5>>,
                              !.fault = fault,
                              !.out = <<check_duplicate(file_md5, manifest, fault)>>]
    /\ UNCHANGED <<libKind, legacyMeta, fs, last, sched, procs>>

NextDup ==
    \E file_md5 \in {"h1", "h2", ""}, fault \in {"none", "read"} :
        CheckDuplicate(file_md5, fault)

SpecDup == InitDup /\ [][NextDup]_vars

(***************************************************************************)
(* determine_file_type called alone, on file names and on the states of    *)
(* config.json in the working directory.                                   *)
(***************************************************************************)
\* file names: the source files, a lowercase .pdf, a dot file, two suffixes
ClassifyFiles ==
    SourceFiles \cup
    { [stem |-> "e",     ext |-> "pdf", content |-> "c1"],
      [stem |-> ".txt",  ext |-> "",    content |-> "c1"],
      [stem |-> "a.tar", ext |-> "gz",  content |-> "c1"] }

NoTable == [e \in {} |-> ""]

\* config.json: missing; unreadable or not JSON; a JSON object without a
\* "filetype" key; with an object under "filetype"; with another JSON value
\* (null, a list, a string) under "filetype"
Configs ==
    { [file |-> "missing",    key |-> "absent", table |-> NoTable],
      [file |-> "unreadable", key |-> "absent", table |-> NoTable],
      [file |-> "object",     key |-> "absent", table |-> NoTable],
      [file |-> "object",     key |-> "other",  table |-> NoTable],
      [file |-> "object",     key |-> "object", table |-> filetype],
      [file |-> "object",     key |-> "object", table |-> [e \in {"PDF"} |-> "doc"]],
      [file |-> "object",     key |-> "object", table |-> [e \in {"txt"} |-> "text"]],
      [file |-> "object",     key |-> "object",
       table |-> [e \in {"gz", "xyz"} |-> IF e = "gz" THEN "archive" ELSE "misc"]] }

\* determine_file_type for a state of config.json: the value returned, or
\* raised when the lookup is made on a value that is not an object
determine_file_type_from(f, config) ==
    LET ext_key == Lower(f.ext)
        unknown == [out |-> <<"unknown">>, raised |-> FALSE]
    IN  IF ext_key = "" THEN unknown
        ELSE IF config.file # "object" \/ config.key = "absent" THEN unknown
        ELSE IF config.key = "other" THEN [out |-> <<>>, raised |-> TRUE]
        ELSE IF ext_key \in DOMAIN config.table
             THEN [out |-> <<config.table[ext_key]>>, raised |-> FALSE]
        ELSE unknown

\* one call of determine_file_type
Classify(f, config) ==
    LET res == determine_file_type_from(f, config)
    IN  /\ sched = "call"
        /\ ops < MaxOps
        /\ ops' = ops + 1
        /\ call' = [NoCall EXCEPT !.fn = "determine_file_type", !.args = <<f, config>>,
                                  !.out = res.out, !.raised = res.raised]
        /\ UNCHANGED <<libKind, legacyMeta, fs, injected, last, sched, procs>>

NextClassify == \E f \in ClassifyFiles, config \in Configs : Classify(f, config)

SpecClassify == InitCalls /\ [][NextClassify]_vars

(***************************************************************************)
(* Imports into the library one import has left, with the fingerprint that *)
(* import computed: the digest of the file, or "" when its hashing failed. *)
(***************************************************************************)
\* the library after `import a.txt` with options args and digest file_md5
InitAfterImport ==
    \E args \in ImportOptions, f \in {x \in Recognized : x.ext = "txt" /\ x.content = "c1"} :
      \E file_md5 \in {MD5(f.content), ""} :
        LET file_type == determine_file_type(f)
            current_path == determine_storage_path(<<file_type>>, args.author, args.series)
            json_folder == determine_storage_path(<<".meta", file_type>>,
                                                  args.author, args.series)
            json_file_path == [dir |-> json_folder, name |-> f.stem \o ".json"]
            target_path == [dir |-> current_path, name |-> Name(f)]
            metadata == create_metadata(f, args, target_path, f.content, file_md5)
        IN  /\ libKind = "default"
            /\ legacyMeta = FALSE
            /\ dirs = MkdirParents(MkdirParents({}, current_path), json_folder)
            /\ assets = Put(NoFiles, target_path, f.content)
            /\ sidecars = write_sidecar(NoFiles, json_file_path, metadata, "none")
            /\ manifest = [exists |-> TRUE, lines |-> <<headers, export_row(metadata)>>]
            /\ injected = NoFailure
            /\ ops = 0
            /\ last = NoCmd
            /\ sched = "atomic"
            /\ procs = NoProcs
            /\ call = NoCall

\* imports in which the hashing or the read of the manifest may fail
NextAfterImport ==
    \E f \in SourceFiles, args \in ImportOptions, fault \in {"none", "hash", "read"} :
        Import(f, args, fault)

SpecAfterImport == InitAfterImport /\ [][NextAfterImport]_vars

(***************************************************************************)
(* Vocabulary of the properties.                                           *)
(***************************************************************************)
\* this step is one run of the import command / of the manifest command
ImportStep == ops' = ops + 1 /\ last'.cmd = "import"
ManifestStep == ops' = ops + 1 /\ last'.cmd = "manifest"

\* the I/O call that failed in this step
FaultOfStep == last'.fault

\* the lines of a manifest, after the first, whose fingerprint column holds md5
RowsWith(mf, md5) == { i \in 2..Len(mf.lines) : mf.lines[i][10] = md5 }

\* the first of them
FirstRowWith(mf, md5) == CHOOSE i \in RowsWith(mf, md5) : \A j \in RowsWith(mf, md5) : i <= j

\* the asset files holding the bytes c
AssetsWith(tree, c) == { p \in DOMAIN tree : tree[p] = c }

\* the extension is empty or absent from the type table
Unrecognized(f) == Lower(f.ext) \notin DOMAIN filetype

\* the command reported an import: the copy and the sidecar write succeeded
Imported(l) == l.cmd = "import" /\ l.exit = 0 /\ {"copied", "json_ok"} \subseteq l.msgs

(***************************************************************************)
(* C1.  Idempotent re-import: when a file was imported and the next import *)
(* is of a file with the same bytes, the library afterwards holds exactly  *)
(* one asset file and exactly one manifest row for that content.  Stated   *)
(* for the runs in which no I/O call fails.                                *)
(***************************************************************************)
C1_IdempotentReimport ==
    [][ (Imported(last) /\ ImportStep /\ last'.file.content = last.file.content
            /\ ~Unrecognized(last'.file) /\ injected' = NoFailure)
          => /\ Cardinality(AssetsWith(assets', last.file.content)) = 1
             /\ Cardinality(RowsWith(manifest', MD5(last.file.content))) = 1 ]_vars

(***************************************************************************)
(* C2.  Hash uniqueness: after any sequence of imports in which only       *)
(* copies, sidecar writes or manifest writes failed, no two data rows of   *)
(* the manifest carry the same non-empty fingerprint.                      *)
(***************************************************************************)
C2_HashUnique ==
    injected.other = 0
      => \A i, j \in 2..Len(manifest.lines) :
            (i # j /\ manifest.lines[i][10] # "")
               => manifest.lines[i][10] # manifest.lines[j][10]

(***************************************************************************)
(* C3.  Duplicate abort is a no-op: when the source file's non-empty       *)
(* fingerprint is the fingerprint of some manifest row, the import ends    *)
(* right after the duplicate check with exit code 0, reports the filename  *)
(* of the matching row and leaves directories, assets, sidecars and        *)
(* manifest unchanged.                                                     *)
(***************************************************************************)
DuplicateAbort ==
    /\ last'.outcome = "duplicate"
    /\ last'.exit = 0
    /\ last'.returns_int
    /\ "dup" \in last'.msgs
    /\ "copied" \notin last'.msgs
    /\ last'.dup_name = manifest.lines[FirstRowWith(manifest, last'.md5)][1]
    /\ UNCHANGED <<dirs, assets, sidecars, manifest>>

\* C3 as claimed
C3_DuplicateNoOp ==
    [][ (ImportStep /\ last'.md5 # "" /\ RowsWith(manifest, last'.md5) # {})
          => DuplicateAbort ]_vars

\* C3 amended: the same, provided the duplicate check can read the manifest
C3_DuplicateNoOpWhenReadable ==
    [][ (ImportStep /\ last'.md5 # "" /\ RowsWith(manifest, last'.md5) # {}
            /\ FaultOfStep # "read")
          => DuplicateAbort ]_vars

\* a file was skipped as the duplicate of a file with another name
C3_Witness ==
    /\ last.cmd = "import"
    /\ last.outcome = "duplicate"
    /\ last.dup_name # Name(last.file)
    /\ RowsWith(manifest, last.md5) # {}

(***************************************************************************)
(* C4.  Every failure of a stage of an import, the sidecar write and the   *)
(* manifest update included, is surfaced as a message plus a non-zero      *)
(* exit status, and CLIApp.run returns normally.                           *)
(***************************************************************************)
FailureMsgs == { "unknown_type", "run_error", "import_fail", "json_fail", "csv_fail" }

C4_FailuresSurfaced ==
    (last.cmd = "import"
       /\ last.outcome \in { "unknown", "path_error", "copy_error", "metadata_error",
                             "sidecar_error", "manifest_error" })
      => /\ last.returns_int
         /\ last.exit # 0
         /\ last.msgs \cap FailureMsgs # {}

(***************************************************************************)
(* C5.  Unrecognized type: importing a file whose extension is empty or    *)
(* absent from the type table returns 1, writes no sidecar and leaves the  *)
(* manifest unchanged, whatever the library holds.                         *)
(***************************************************************************)
\* C5 as claimed
C5_UnrecognizedType ==
    [][ (ImportStep /\ Unrecognized(last'.file))
          => /\ last'.exit = 1
             /\ sidecars' = sidecars
             /\ manifest' = manifest ]_vars

\* the duplicate check of this step finds a row
MatchedInStep ==
    /\ last'.md5 # ""
    /\ RowsWith(manifest, last'.md5) # {}
    /\ FaultOfStep # "read"

\* C5 amended: no sidecar, no manifest change; exit code 1 unless the
\* duplicate check, which runs first, finds a row with the file's
\* fingerprint, and then 0
C5_UnrecognizedTypeUnlessDuplicate ==
    [][ (ImportStep /\ Unrecognized(last'.file))
          => /\ last'.exit = IF MatchedInStep THEN 0 ELSE 1
             /\ last'.returns_int
             /\ sidecars' = sidecars
             /\ manifest' = manifest
             /\ assets' = assets ]_vars

\* a file of unrecognized type was refused by a library that holds rows
C5_Witness ==
    /\ last.cmd = "import"
    /\ Unrecognized(last.file)
    /\ last.outcome = "unknown"
    /\ last.exit = 1
    /\ Len(manifest.lines) > 1

(***************************************************************************)
(* C6.  Import exit code: 0 when the file was imported and when it was     *)
(* skipped as a duplicate; 1 when the type is unrecognized, when the copy  *)
(* fails, and when a stage fails unexpectedly (hashing, duplicate check,   *)
(* path resolution, metadata construction).                                *)
(***************************************************************************)
\* the import of this step gets as far as the copy
ReachesCopy ==
    ~MatchedInStep /\ ~Unrecognized(last'.file) /\ FaultOfStep # "mkdir"

\* the copy and the sidecar write of this step succeed
ImportedInStep ==
    /\ ReachesCopy
    /\ FaultOfStep \notin {"copy_open", "copy_partial", "sidecar_open", "sidecar_partial"}
    /\ libKind # "outside"

\* C6 as claimed, for the runs in which no I/O call fails (so that the
\* only stage that raises is metadata construction, under a library path
\* outside the project root)
C6_ImportExitCode ==
    [][ (ImportStep /\ injected' = NoFailure)
          => /\ ImportedInStep => last'.exit = 0
             /\ MatchedInStep => last'.exit = 0
             /\ Unrecognized(last'.file) => last'.exit = 1
             /\ (ReachesCopy /\ libKind = "outside") => last'.exit = 1 ]_vars

\* C6 amended: 1 for an unrecognized type only when the file is no
\* duplicate; 1 when path resolution or metadata construction raises; a
\* failure of hashing or of the duplicate check's read is caught there and
\* leaves the exit code to the later stages
C6_ImportExitCodeAmended ==
    [][ ImportStep
          => /\ last'.returns_int
             /\ ImportedInStep => last'.exit = 0
             /\ MatchedInStep => last'.exit = 0
             /\ (Unrecognized(last'.file) /\ ~MatchedInStep) => last'.exit = 1
             /\ (ReachesCopy /\ FaultOfStep \in {"copy_open", "copy_partial"})
                  => last'.exit = 1
             /\ (~MatchedInStep /\ ~Unrecognized(last'.file) /\ FaultOfStep = "mkdir")
                  => last'.exit = 1
             /\ (ReachesCopy /\ libKind = "outside") => last'.exit = 1 ]_vars

\* path resolution raised out of execute and the command returned 1
C6_Witness ==
    /\ last.cmd = "import"
    /\ last.outcome = "path_error"
    /\ last.raised
    /\ last.exit = 1

(***************************************************************************)
(* C7.  One sidecar per asset: while every copy and every sidecar write    *)
(* succeeds, a sidecar exists iff its asset exists, there are as many      *)
(* sidecars as assets, and each asset's sidecar records the asset's own    *)
(* filename, fingerprint and storage path.  Stated for the runs in which   *)
(* no I/O call fails, under the default library path.                      *)
(***************************************************************************)
\* Path.stem of a file name
StemOf(name) == (CHOOSE f \in SourceFiles : Name(f) = name).stem

\* where the sidecar of an asset file is
SidecarOf(p) == [dir |-> <<".meta">> \o p.dir, name |-> StemOf(p.name) \o ".json"]

\* an asset file's path relative to the project root
PathText(p) == JoinWith(LibDir \o p.dir \o <<p.name>>, "/")

C7_OneSidecarPerAsset ==
    (injected = NoFailure /\ libKind = "default")
      => /\ \A p \in DOMAIN assets :
               /\ SidecarOf(p) \in DOMAIN sidecars
               /\ sidecars[SidecarOf(p)].ok
               /\ sidecars[SidecarOf(p)].meta.original_filename = p.name
               /\ sidecars[SidecarOf(p)].meta.md5 = MD5(assets[p])
               /\ sidecars[SidecarOf(p)].meta.file_path = PathText(p)
         /\ \A q \in DOMAIN sidecars : \E p \in DOMAIN assets : SidecarOf(p) = q
         /\ Cardinality(DOMAIN sidecars) = Cardinality(DOMAIN assets)

(***************************************************************************)
(* C8.  Asset immutability: no later import changes the bytes of an asset  *)
(* that an import has copied, and the storage path of a manifest row keeps *)
(* referring to the content whose fingerprint the row records.  Stated     *)
(* for the runs in which no I/O call fails, under the default library      *)
(* path.                                                                   *)
(***************************************************************************)
C8_AssetImmutable ==
    [][ (ImportStep /\ injected' = NoFailure /\ libKind = "default")
          => /\ \A p \in DOMAIN assets :
                   p \in DOMAIN assets' /\ assets'[p] = assets[p]
             /\ \A i \in 2..Len(manifest.lines) : \A p \in DOMAIN assets' :
                   (manifest.lines[i][11] = PathText(p) /\ manifest.lines[i][10] # "")
                      => MD5(assets'[p]) = manifest.lines[i][10] ]_vars

(***************************************************************************)
(* C9.  Manifest/sidecar consistency after bootstrap: right after a        *)
(* bootstrap export completes, the manifest has as many data rows as       *)
(* there are sidecar files under the metadata tree.                        *)
(***************************************************************************)
\* this step ran a bootstrap export to its end
BootstrapCompleted ==
    /\ ops' = ops + 1
    /\ ~manifest.exists
    /\ \/ last'.cmd = "manifest" /\ last'.outcome = "exported"
       \/ last'.cmd = "import" /\ last'.outcome = "done"

C9_RowsEqualSidecars ==
    [][ BootstrapCompleted
          => Len(manifest'.lines) - 1 = Cardinality(DOMAIN sidecars') ]_vars

(***************************************************************************)
(* C10.  Manifest command with the manifest absent: the command rebuilds   *)
(* the manifest, leaves a manifest file with as many data rows as there    *)
(* are sidecar files, and returns 0, also with no sidecars and with no     *)
(* metadata directory.  Stated for the runs in which no I/O call fails,    *)
(* under the default library path.                                         *)
(***************************************************************************)
C10_ManifestRebuild ==
    [][ (ManifestStep /\ ~manifest.exists /\ injected' = NoFailure /\ libKind = "default")
          => /\ manifest'.exists
             /\ Len(manifest'.lines) - 1 = Cardinality(DOMAIN sidecars')
             /\ last'.returns_int
             /\ last'.exit = 0 ]_vars

(***************************************************************************)
(* C11.  Two imports of files with the same content: when their stages     *)
(* interleave, both can pass the duplicate check before either updates     *)
(* the manifest, and the run ends with two rows for one fingerprint; when  *)
(* one import runs after the other and no I/O call fails, no two rows of   *)
(* the manifest share a non-empty fingerprint.                             *)
(***************************************************************************)
\* two data rows share a non-empty fingerprint
TwoRowsOneFingerprint ==
    \E i, j \in 2..Len(manifest.lines) :
        i # j /\ manifest.lines[i][10] # "" /\ manifest.lines[i][10] = manifest.lines[j][10]

C11_NoTwoRowsWhenSequential ==
    (sched = "sequential" /\ injected = NoFailure) => ~TwoRowsOneFingerprint

\* both imports passed the duplicate check and each left a row
C11_Witness ==
    /\ sched = "interleaved"
    /\ injected = NoFailure
    /\ procs[1].file.content = procs[2].file.content
    /\ \A p \in Procs : procs[p].pc = "Done" /\ ~procs[p].is_dup /\ procs[p].outcome = "done"
    /\ Cardinality(RowsWith(manifest, procs[1].md5)) = 2
    /\ TwoRowsOneFingerprint

(***************************************************************************)
(* C12.  PathResolver table and determinism: _determine_storage_path       *)
(* returns base/author/series when both are present, base/author when      *)
(* only the author is, base/unsort when only the series is, base when      *)
(* neither is, None and "" both counting as absent; it raises only when    *)
(* mkdir fails, the directory it returns exists afterwards, and a call     *)
(* with the arguments of the call before it returns the same path and      *)
(* leaves the directories as they are.                                     *)
(***************************************************************************)
Present(x) == x # None /\ x # ""

\* the four-case table, for the arguments and the result of a call
PathTable(c) ==
    LET base == c.args[1]
        author == c.args[2]
        series == c.args[3]
        out == c.out[1]
    IN  /\ (Present(author) /\ Present(series)) => out = base \o <<author, series>>
        /\ (Present(author) /\ ~Present(series)) => out = base \o <<author>>
        /\ (~Present(author) /\ Present(series)) => out = base \o <<"unsort">>
        /\ (~Present(author) /\ ~Present(series)) => out = base

FirstMatch(c) ==
    LET md5 == c.args[1]
    IN  IF RowsWith(manifest, md5) # {}
        THEN c.out[1] = [is_dup |-> TRUE,
                         dup_name |-> manifest.lines[FirstRowWith(manifest, md5)][1]]
        ELSE c.out[1] = NoMatch

\* C13 as claimed, for the calls in which the read of the manifest succeeds
C13_FirstMatchWins ==
    (call.fn = "check_duplicate" /\ call.fault = "none") => FirstMatch(call)

\* C13 amended: first match for a non-empty fingerprint and a manifest that
\* can be read; no match for the empty fingerprint and when the read fails
C13_FirstMatchWinsNonEmpty ==
    call.fn = "check_duplicate"
      => /\ ~call.raised
         /\ IF call.args[1] # "" /\ call.fault = "none"
            THEN FirstMatch(call)
            ELSE call.out[1] = NoMatch

\* two rows of different filenames carry the fingerprint: the first is named
C13_Witness ==
    /\ call.fn = "check_duplicate"
    /\ call.out[1].is_dup
    /\ \E i, j \in RowsWith(manifest, call.args[1]) :
          /\ i < j
          /\ manifest.lines[i][1] # manifest.lines[j][1]
          /\ i = FirstRowWith(manifest, call.args[1])
          /\ call.out[1].dup_name = manifest.lines[i][1]

(***************************************************************************)
(* C14.  A missing manifest never blocks import: when the manifest is      *)
(* absent, holds no rows or cannot be read, the duplicate check answers    *)
(* no match without raising, and the import goes on to Classifying as it   *)
(* does for a file with no duplicate (a failed read adds its warning).     *)
(***************************************************************************)
\* process p runs its duplicate check in this step
ChecksDuplicate(p) ==
    /\ p \in DOMAIN procs
    /\ procs[p].pc = "DuplicateCheck"
    /\ procs'[p] # procs[p]

\* the read of the manifest fails in this step
ReadFailsInStep == injected'.other = injected.other + 1

C14_MissingManifestNeverBlocks ==
    [][ \A p \in Procs :
          (ChecksDuplicate(p)
             /\ (~manifest.exists \/ Len(manifest.lines) <= 1 \/ ReadFailsInStep))
            => /\ procs'[p] = [procs[p] EXCEPT
                                 !.pc = "Classifying",
                                 !.stages = Append(@, "DuplicateCheck"),
                                 !.msgs = @ \cup (IF "read_warning" \in procs'[p].msgs
                                                  THEN {"read_warning"} ELSE {})]
               /\ ~procs'[p].is_dup /\ ~procs'[p].raised
               /\ UNCHANGED fs ]_vars

\* an import went on to Classifying although a row carries its fingerprint:
\* the read of the manifest had failed
C14_Witness ==
    /\ sched \in {"sequential", "interleaved"}
    /\ \E p \in Procs :
          /\ procs[p].pc = "Classifying"
          /\ "read_warning" \in procs[p].msgs
          /\ ~procs[p].is_dup
          /\ RowsWith(manifest, procs[p].md5) # {}

(***************************************************************************)
(* C15.  Incremental append: when the manifest file exists at the          *)
(* manifest update of an import, the update adds exactly one data row at   *)
(* the end of the file, describing the imported asset in the column order  *)
(* filename, author, series, tags, source, extension, category,            *)
(* importedAt, byteSize, fingerprint, storagePath, and leaves every line   *)
(* already present unchanged and in place.  When the write fails, no data  *)
(* row is added and the lines already present stay as well.                *)
(***************************************************************************)
\* the text of an optional value in a row
Txt(x) == IF Present(x) THEN x ELSE ""

\* the row describing file f imported with options args and fingerprint md5
RowDescribing(f, args, md5) ==
    LET category == filetype[Lower(f.ext)]
        dir == determine_storage_path(<<category>>, args.author, args.series)
    IN  << Name(f), Txt(args.author), Txt(args.series),
           JoinWith(SelectSeq(args.tags, LAMBDA t : t # ""), ","), Txt(args.source),
           f.ext, category, import_time, Str(StSize(f.content)), md5,
           JoinWith(LibDir \o dir \o <<Name(f)>>, "/") >>

\* this step is an import that reaches its manifest update with the file there
AppendStep ==
    /\ ImportStep
    /\ manifest.exists
    /\ {"copied", "json_ok"} \subseteq last'.msgs

C15_IncrementalAppend ==
    [][ AppendStep
          => LET old == manifest.lines
                 new == manifest'.lines
                 base == IF Len(old) = 0 THEN <<headers>> ELSE old
             IN  /\ manifest'.exists
                 /\ IF FaultOfStep \in {"manifest_open", "manifest_partial"}
                    THEN new = old \/ new = base
                    ELSE /\ Len(new) = Len(base) + 1
                         /\ SubSeq(new, 1, Len(base)) = base
                         /\ \E args \in ImportOptions :
                               new[Len(new)] = RowDescribing(last'.file, args, last'.md5) ]_vars

\* a row was appended after the rows of an earlier import
C15_Witness ==
    /\ last.cmd = "import"
    /\ last.outcome = "done"
    /\ "csv_updated" \in last.msgs
    /\ Len(manifest.lines) >= 3
    /\ manifest.lines[Len(manifest.lines)][1] = Name(last.file)
    /\ manifest.lines[Len(manifest.lines)][10] = last.md5

(***************************************************************************)
(* C16.  Single header: after any sequence of imports and manifest         *)
(* exports, a manifest file that holds at least one line has the fixed     *)
(* header as its first line and holds the header exactly once; an append   *)
(* to a non-empty manifest writes no header, and an append to an existing  *)
(* but empty manifest writes the header before the row.                    *)
(***************************************************************************)
\* the header is the first line of the file and no other line of it
HeaderOnce(mf) ==
    Len(mf.lines) >= 1
      => /\ mf.lines[1] = headers
         /\ \A i \in 2..Len(mf.lines) : mf.lines[i] # headers

C16_SingleHeader ==
    [][ /\ HeaderOnce(manifest')
        /\ (AppendStep /\ "csv_updated" \in last'.msgs)
             => IF Len(manifest.lines) = 0
                THEN /\ Len(manifest'.lines) = 2
                     /\ manifest'.lines[1] = headers
                     /\ manifest'.lines[2] # headers
                ELSE /\ Len(manifest'.lines) = Len(manifest.lines) + 1
                     /\ manifest'.lines[Len(manifest'.lines)] # headers ]_vars

\* an import appended its row to the file a failed manifest write had left
C16_Witness ==
    /\ ops = 2
    /\ injected.write = 1
    /\ last.cmd = "import" /\ last.fault = "none"
    /\ "csv_updated" \in last.msgs
    /\ Len(manifest.lines) = 2
    /\ HeaderOnce(manifest)

(***************************************************************************)
(* C17.  Mirrored trees: for every import that reaches MetadataWrite, the  *)
(* directory of the sidecar below <storage root>/.meta equals the          *)
(* directory of the asset below the storage root (the category, then the   *)
(* author / series / unsort segments), and the sidecar is named            *)
(* <stem>.json for the stem of the source file name.                       *)
(***************************************************************************)
\* the sidecar paths a step wrote
WrittenSidecars ==
    { k \in DOMAIN sidecars' : k \notin DOMAIN sidecars \/ sidecars'[k] # sidecars[k] }

\* the author / series / unsort segments of an import
Segments(args) ==
    IF Present(args.author) /\ Present(args.series) THEN <<args.author, args.series>>
    ELSE IF Present(args.author) THEN <<args.author>>
    ELSE IF Present(args.series) THEN <<"unsort">>
    ELSE <<>>

C17_MirroredTrees ==
    [][ \A p \in DOMAIN procs :
          (procs[p].pc = "MetadataWrite" /\ procs'[p].pc # "MetadataWrite")
            => /\ Cardinality(WrittenSidecars) <= 1
               /\ \A k \in WrittenSidecars :
                    \E a \in DOMAIN assets :
                       /\ a.name = Name(procs[p].file)
                       /\ a.dir = <<filetype[Lower(procs[p].file.ext)]>>
                                     \o Segments(procs[p].args)
                       /\ k.dir = <<".meta">> \o a.dir
                       /\ k.name = procs[p].file.stem \o ".json" ]_vars

\* an import with an author wrote .meta/<category>/<author>/<stem>.json
C17_Witness ==
    \E p \in DOMAIN procs :
        /\ "MetadataWrite" \in { procs[p].stages[i] : i \in DOMAIN procs[p].stages }
        /\ "json_ok" \in procs[p].msgs
        /\ Present(procs[p].args.author) /\ ~Present(procs[p].args.series)
        /\ [dir |-> <<".meta", procs[p].file_type, procs[p].args.author>>,
            name |-> procs[p].file.stem \o ".json"] \in DOMAIN sidecars
        /\ [dir |-> <<procs[p].file_type, procs[p].args.author>>,
            name |-> Name(procs[p].file)] \in DOMAIN assets

(***************************************************************************)
(* C18.  Classification: for every file whose lowercased extension is a    *)
(* key of the configured extension table, determine_file_type returns the  *)
(* mapped category; for every file whose extension is empty or absent      *)
(* from the table, and when the configuration is missing or unreadable,    *)
(* it returns "unknown"; it never raises.                                  *)
(***************************************************************************)
\* the extension table a state of config.json configures
TableOf(config) ==
    IF config.file = "object" /\ config.key = "object" THEN config.table ELSE NoTable

\* the value the claim gives for a call
Classified(c) ==
    LET ext == Lower(c.args[1].ext)
        table == TableOf(c.args[2])
    IN  IF ext # "" /\ ext \in DOMAIN table THEN table[ext] ELSE "unknown"

C18_Classification ==
    call.fn = "determine_file_type"
      => /\ ~call.raised
         /\ call.out = <<Classified(call)>>

\* the same, for every config.json whose "filetype" entry, when there is
\* one, is an object
C18_ClassificationOfTables ==
    (call.fn = "determine_file_type" /\ call.args[2].key # "other")
      => /\ ~call.raised
         /\ call.out = <<Classified(call)>>

\* a.PDF was classified by the table entry of "pdf"
C18_Witness ==
    /\ call.fn = "determine_file_type"
    /\ call.args[1].ext = "PDF"
    /\ call.args[2].key = "object" /\ "pdf" \in DOMAIN call.args[2].table
    /\ call.out = <<"doc">>

\* a file with an extension was looked up in a "filetype" value that is not
\* an object
C18_Raised ==
    /\ call.fn = "determine_file_type"
    /\ call.args[2].key = "other"
    /\ call.raised

(***************************************************************************)
(* C19.  Integer exit code: every command's execute returns an integer     *)
(* (0 for success, non-zero for failure) for every argument value it       *)
(* accepts; in particular the manifest command returns an integer when its *)
(* output path is absolute and when the output file already exists, so     *)
(* CLIApp.run always returns an integer.                                   *)
(***************************************************************************)
C19_IntegerExitCode ==
    [][ (ops' = ops + 1 /\ last'.cmd \in {"import", "manifest"})
          => /\ last'.returns_int
             /\ last'.exit \in {0, 1} ]_vars

\* the import command does return an integer on every path
C19_ImportReturnsInteger ==
    [][ ImportStep => last'.returns_int /\ last'.exit \in {0, 1} ]_vars

\* the manifest command ran on an existing manifest file and returned no
\* integer
C19_ReturnsNone ==
    /\ last.cmd = "manifest"
    /\ manifest.exists
    /\ ~last.raised
    /\ ~last.returns_int

(***************************************************************************)
(* C20.  Stage ordering: within one import the stages occur only in the    *)
(* order Hashing, DuplicateCheck, Classifying, PathResolution, Copying,    *)
(* MetadataWrite, ManifestUpdate, each at most once; the sidecar of an     *)
(* import is written only after its copy succeeded, and the manifest is    *)
(* touched for an import only after that import's sidecar write            *)
(* succeeded, so no manifest row is produced by an import whose copy or    *)
(* sidecar write failed.                                                   *)
(***************************************************************************)
StageOrder ==
    << "Hashing", "DuplicateCheck", "Classifying", "PathResolution", "Copying",
       "MetadataWrite", "ManifestUpdate" >>

\* the stages an import went through are the first ones of the order
InOrder(stages) ==
    /\ Len(stages) <= Len(StageOrder)
    /\ stages = SubSeq(StageOrder, 1, Len(stages))

Entered(r, stage) == \E i \in DOMAIN r.stages : r.stages[i] = stage

\* the copy and the sidecar write of the import both succeeded
CopiedAndDescribed(r) == {"copied", "json_ok"} \subseteq r.msgs

\* the row names the file, the fingerprint and the target path of the import
RowOfImport(row, r) ==
    /\ row[1] = Name(r.file)
    /\ row[10] = r.md5
    /\ row[11] = PathText(TargetPath(r))

C20_StageOrdering ==
    [][ /\ \A p \in DOMAIN procs' :
            LET r == procs'[p]
            IN  /\ InOrder(r.stages)
                /\ Entered(r, "MetadataWrite") => "copied" \in r.msgs
                /\ Entered(r, "ManifestUpdate") => CopiedAndDescribed(r)
        /\ sidecars' # sidecars
             => \E p \in DOMAIN procs :
                   /\ procs[p].pc = "MetadataWrite" /\ procs'[p] # procs[p]
                   /\ "copied" \in procs[p].msgs
        /\ manifest' # manifest
             => \E p \in DOMAIN procs :
                   /\ procs[p].pc \in {"ManifestUpdate", "BootstrapWrite"}
                   /\ procs'[p] # procs[p]
                   /\ CopiedAndDescribed(procs[p])
        /\ \A i \in 2..Len(manifest'.lines) :
              \E q \in DOMAIN procs' :
                 /\ CopiedAndDescribed(procs'[q])
                 /\ RowOfImport(manifest'.lines[i], procs'[q]) ]_vars

\* one import ended at a failed copy or sidecar write, the other went
\* through every stage, and the manifest holds the row of the other alone
C20_Witness ==
    \E p, q \in DOMAIN procs :
        /\ procs[p].outcome \in {"copy_error", "sidecar_error"}
        /\ ~CopiedAndDescribed(procs[p])
        /\ procs[q].outcome = "done"
        /\ procs[q].stages = StageOrder
        /\ Len(manifest.lines) = 2
        /\ RowOfImport(manifest.lines[2], procs[q])
        /\ ~RowOfImport(manifest.lines[2], procs[p])

(***************************************************************************)
(* C21.  MetadataWrite failure: when the sidecar write fails after a       *)
(* successful copy, the copied asset stays in the library, no sidecar      *)
(* exists for it, the manifest is unchanged (no ManifestUpdate), and no    *)
(* later bootstrap export produces a row for that asset.                   *)
(***************************************************************************)
\* process p leaves MetadataWrite in this step with its sidecar write failed
SidecarWriteFails(p) ==
    /\ procs[p].pc = "MetadataWrite"
    /\ procs'[p].outcome = "sidecar_error"

\* a parseable sidecar sits at the mirrored path of the asset and names it
SidecarFor(tree, r) ==
    /\ JsonFilePath(r) \in DOMAIN tree
    /\ tree[JsonFilePath(r)].ok
    /\ tree[JsonFilePath(r)].meta.original_filename = Name(r.file)
    /\ tree[JsonFilePath(r)].meta.file_path = PathText(TargetPath(r))

\* a bootstrap export of the tree yields a row with the path of the asset
ExportHasRowFor(tree, r) ==
    \E rows \in export_rows(ExportTree(tree)) :
        \E i \in DOMAIN rows : rows[i][11] = PathText(TargetPath(r))

C21_MetadataWriteFailure ==
    [][ \A p \in DOMAIN procs :
          SidecarWriteFails(p)
            => /\ "copied" \in procs[p].msgs
               /\ assets' = assets /\ TargetPath(procs[p]) \in DOMAIN assets'
               /\ manifest' = manifest
               /\ procs'[p].pc = "Done" /\ ~Entered(procs'[p], "ManifestUpdate")
               /\ ~SidecarFor(sidecars', procs[p])
               /\ ~ExportHasRowFor(sidecars', procs[p]) ]_vars

\* the same, where a sidecar an earlier import left at the path stays as it
\* was: this import adds no parseable sidecar and no row of a later export
C21_MetadataWriteFailureAddsNothing ==
    [][ \A p \in DOMAIN procs :
          SidecarWriteFails(p)
            => /\ "copied" \in procs[p].msgs
               /\ assets' = assets /\ TargetPath(procs[p]) \in DOMAIN assets'
               /\ manifest' = manifest
               /\ procs'[p].pc = "Done" /\ ~Entered(procs'[p], "ManifestUpdate")
               /\ Parseable(sidecars') \subseteq Parseable(sidecars)
               /\ \A k \in Parseable(sidecars') : sidecars'[k] = sidecars[k]
               /\ SidecarFor(sidecars', procs[p]) => SidecarFor(sidecars, procs[p])
               /\ ExportHasRowFor(sidecars', procs[p])
                     => ExportHasRowFor(sidecars, procs[p]) ]_vars

\* the second import of a name overwrote the asset, its sidecar write
\* failed, and the sidecar of the first import still names the asset
C21_StaleSidecar ==
    \E p \in DOMAIN procs :
        /\ sched = "sequential"
        /\ procs[p].outcome = "sidecar_error"
        /\ TargetPath(procs[p]) \in DOMAIN assets
        /\ assets[TargetPath(procs[p])] = procs[p].file.content
        /\ SidecarFor(sidecars, procs[p])
        /\ sidecars[JsonFilePath(procs[p])].meta.md5 # procs[p].md5

(***************************************************************************)
(* C22.  ManifestUpdate failure: when the manifest update fails, in the    *)
(* incremental append or in the bootstrap export taken when the manifest   *)
(* is absent, the failure is reported to the user and never reported as a  *)
(* success, and the copied asset and the written sidecar stay in place.    *)
(***************************************************************************)
\* the manifest update of process p fails in this step
ManifestUpdateFails(p) ==
    /\ procs[p].pc \in {"ManifestUpdate", "BootstrapWrite"}
    /\ procs'[p].outcome = "manifest_error"

SuccessMsgs == { "csv_exported", "csv_updated" }

\* the asset and the sidecar of the import are where the import put them
LeftInPlace(p) ==
    /\ assets' = assets /\ sidecars' = sidecars
    /\ TargetPath(procs[p]) \in DOMAIN assets'
    /\ JsonFilePath(procs[p]) \in DOMAIN sidecars'

C22_ManifestUpdateFailure ==
    [][ \A p \in DOMAIN procs :
          ManifestUpdateFails(p)
            => /\ "csv_fail" \in procs'[p].msgs
               /\ procs'[p].msgs \cap SuccessMsgs = {}
               /\ LeftInPlace(p) ]_vars

\* what holds: a failed append is reported as a failure, a failed bootstrap
\* export is reported as an export, and nothing is rolled back in either
C22_FailedAppendReported ==
    [][ \A p \in DOMAIN procs :
          ManifestUpdateFails(p)
            => /\ LeftInPlace(p)
               /\ IF procs[p].pc = "ManifestUpdate" /\ manifest.exists
                  THEN /\ "csv_fail" \in procs'[p].msgs
                       /\ procs'[p].msgs \cap SuccessMsgs = {}
                  ELSE /\ "csv_exported" \in procs'[p].msgs
                       /\ "csv_fail" \notin procs'[p].msgs ]_vars

\* the write of the bootstrap export failed and the import reported an
\* exported manifest
C22_FailureReportedAsSuccess ==
    \E p \in DOMAIN procs :
        /\ libKind = "default"
        /\ injected.write = 1
        /\ procs[p].outcome = "manifest_error"
        /\ "csv_exported" \in procs[p].msgs
        /\ procs[p].exit = 0
        /\ ~manifest.exists

(***************************************************************************)
(* C23.  Copy failure: when the copy of the source file to the resolved    *)
(* storage path fails, the import ends aborted with a copy error and exit  *)
(* code 1, no sidecar is written and the manifest is unchanged; the        *)
(* storage and metadata directories made during PathResolution remain.     *)
(***************************************************************************)
\* the copy of process p fails in this step
CopyFails(p) ==
    /\ procs[p].pc = "Copying"
    /\ procs'[p] # procs[p]
    /\ Failures(injected') = Failures(injected) + 1

C23_CopyFailure ==
    [][ \A p \in DOMAIN procs :
          CopyFails(p)
            => /\ procs'[p].pc = "Aborted"
               /\ procs'[p].outcome = "copy_error"
               /\ procs'[p].exit = 1 /\ ~procs'[p].raised
               /\ "import_fail" \in procs'[p].msgs
               /\ procs'[p].stages = SubSeq(StageOrder, 1, 5)
               /\ sidecars' = sidecars
               /\ manifest' = manifest
               /\ dirs' = dirs
               /\ {CurrentPath(procs[p]), JsonFolder(procs[p])} \subseteq dirs' ]_vars

\* an import was aborted by its copy: its directories are there and the
\* library holds no sidecar and no manifest
C23_Witness ==
    \E p \in DOMAIN procs :
        /\ procs[p].pc = "Aborted" /\ procs[p].outcome = "copy_error"
        /\ procs[p].exit = 1
        /\ {CurrentPath(procs[p]), JsonFolder(procs[p])} \subseteq dirs
        /\ DOMAIN sidecars = {}
        /\ ~manifest.exists

(***************************************************************************)
(* C24.  Bootstrap on import: when the manifest file is absent at the      *)
(* ManifestUpdate of a successful import, the manifest is rebuilt from the *)
(* sidecar tree and afterwards holds the header, exactly one data row per  *)
(* parseable sidecar and exactly one row for the asset just imported (no   *)
(* append follows the rebuild).  Stated for the runs in which no I/O call  *)
(* fails.                                                                  *)
(***************************************************************************)
\* this step is a successful import that finds the manifest absent
BootstrapOnImport ==
    /\ ImportStep
    /\ ImportedInStep
    /\ ~manifest.exists
    /\ injected' = NoFailure

\* the data rows naming the file and the fingerprint of the last import
RowsOfLast(mf, l) ==
    { i \in 2..Len(mf.lines) :
        mf.lines[i][1] = Name(l.file) /\ mf.lines[i][10] = l.md5 }

\* the manifest is the header and one row for each parseable sidecar
Rebuilt(mf, tree) ==
    /\ mf.exists
    /\ Len(mf.lines) = 1 + Cardinality(Parseable(tree))
    /\ mf.lines[1] = headers
    /\ \A k \in Parseable(tree) :
          Cardinality({ i \in 2..Len(mf.lines) :
                          mf.lines[i] = export_row(tree[k].meta) }) = 1

C24_BootstrapOnImport ==
    [][ BootstrapOnImport
          => /\ Rebuilt(manifest', sidecars')
             /\ Cardinality(RowsOfLast(manifest', last')) = 1 ]_vars

\* the same under the default library path, where the sidecars are written
\* into the tree the export enumerates
C24_BootstrapOnImportDefault ==
    [][ (BootstrapOnImport /\ libKind = "default")
          => /\ Rebuilt(manifest', sidecars')
             /\ Cardinality(RowsOfLast(manifest', last')) = 1 ]_vars

\* under a configured library path the import wrote its sidecar and the
\* export it ran left a manifest without a row for it
C24_NoRowAfterBootstrap ==
    /\ libKind = "relative"
    /\ injected = NoFailure
    /\ Imported(last) /\ "csv_exported" \in last.msgs
    /\ Cardinality(Parseable(sidecars)) = 1
    /\ manifest.exists
    /\ manifest.lines = <<headers>>

(***************************************************************************)
(* C25.  Same metadata tree for write and rebuild: for every configured    *)
(* library path, the tree the bootstrap export enumerates is the tree      *)
(* <library path>/.meta into which imports write sidecars, so a sidecar    *)
(* written by an import is found by the next bootstrap export.             *)
(***************************************************************************)
C25_SameMetadataTree ==
    DOMAIN sidecars # {}
      => /\ ExportTreeExists(dirs)
         /\ \A k \in DOMAIN sidecars :
               k \in DOMAIN ExportTree(sidecars) /\ ExportTree(sidecars)[k] = sidecars[k]

\* the same under the default library path
C25_SameMetadataTreeDefault ==
    (libKind = "default" /\ DOMAIN sidecars # {})
      => /\ ExportTreeExists(dirs)
         /\ \A k \in DOMAIN sidecars :
               k \in DOMAIN ExportTree(sidecars) /\ ExportTree(sidecars)[k] = sidecars[k]

\* under a configured library path an import wrote a sidecar that the tree
\* of the export does not hold
C25_SidecarNotEnumerated ==
    /\ libKind = "relative"
    /\ injected = NoFailure
    /\ Imported(last)
    /\ Parseable(sidecars) # {}
    /\ DOMAIN ExportTree(sidecars) = {}

(***************************************************************************)
(* C26.  Empty fingerprint: when hashing the source file fails the         *)
(* fingerprint is the empty string, the import is not aborted for that     *)
(* reason, the duplicate check answers no match for the empty fingerprint  *)
(* whatever the manifest holds (also when a row has an empty fingerprint   *)
(* column), and the stored record carries an empty fingerprint.            *)
(***************************************************************************)
C26_EmptyFingerprint ==
    [][ (ImportStep /\ FaultOfStep = "hash")
          => /\ last'.md5 = ""
             /\ "md5_error" \in last'.msgs
             /\ ~last'.is_dup /\ last'.outcome # "duplicate"
             /\ IF Unrecognized(last'.file)
                THEN last'.outcome = "unknown"
                ELSE /\ Imported(last')
                     /\ \E k \in Parseable(sidecars') :
                           /\ sidecars'[k].meta.original_filename = Name(last'.file)
                           /\ sidecars'[k].meta.md5 = ""
                     /\ Len(manifest'.lines) = Len(manifest.lines) + 1
                     /\ manifest'.lines[Len(manifest'.lines)][1] = Name(last'.file)
                     /\ manifest'.lines[Len(manifest'.lines)][10] = "" ]_vars

\* the manifest held a row with an empty fingerprint, and an import whose
\* hashing failed added a second one
C26_Witness ==
    /\ ops = 1
    /\ last.cmd = "import" /\ last.fault = "hash"
    /\ Imported(last)
    /\ Len(manifest.lines) = 3
    /\ manifest.lines[2][10] = "" /\ manifest.lines[3][10] = ""

(***************************************************************************)
(* C27.  Termination without retry: every import, whatever steps fail,     *)
(* eventually reaches Done or Aborted; no stage is executed more than once *)
(* per import and no failed stage is retried; an import that has ended     *)
(* takes no further step.                                                  *)
(***************************************************************************)
AllEnded == \A p \in DOMAIN procs : procs[p].pc \in Ended

C27_Termination ==
    /\ <>AllEnded
    /\ [](\A p \in DOMAIN procs : InOrder(procs[p].stages))
    /\ [][ \A p \in DOMAIN procs :
             /\ procs[p].pc \in Ended => procs'[p] = procs[p]
             /\ Len(procs'[p].stages) <= Len(procs[p].stages) + 1 ]_vars

\* an import ended after its sidecar write failed, having entered each of
\* the six stages once
C27_Witness ==
    /\ DOMAIN procs = {1}
    /\ procs[1].pc = "Done"
    /\ procs[1].outcome = "sidecar_error"
    /\ Failures(injected) = 1
    /\ procs[1].stages = SubSeq(StageOrder, 1, 6)

(***************************************************************************)
(* C28.  Recorded extension: for every imported asset, the extension       *)
(* stored in its sidecar and in its manifest row is lowercase, has no      *)
(* leading separator, and is the lowercased extension the classifier       *)
(* looked up to pick the category (X.TXT is recorded with txt).            *)
(***************************************************************************)
\* the recorded extension is the key of the type table that gives the category
RecordedAsClassified(ext, category) ==
    /\ ext = Lower(ext)
    /\ ext \in DOMAIN filetype
    /\ filetype[ext] = category

C28_RecordedExtension ==
    /\ \A k \in Parseable(sidecars) :
          RecordedAsClassified(sidecars[k].meta.file_type, sidecars[k].meta.type)
    /\ \A i \in 2..Len(manifest.lines) :
          RecordedAsClassified(manifest.lines[i][6], manifest.lines[i][7])

\* what holds: the recorded extension is the suffix of the source name
\* without the separator, in the case of the name, and its lowercase form
\* is the key that gave the category
C28_RecordedExtensionVerbatim ==
    /\ \A k \in Parseable(sidecars) :
          LET m == sidecars[k].meta
          IN  /\ \E f \in SourceFiles : Name(f) = m.original_filename /\ m.file_type = f.ext
              /\ RecordedAsClassified(Lower(m.file_type), m.type)
    /\ \A i \in 2..Len(manifest.lines) :
          LET row == manifest.lines[i]
          IN  /\ \E f \in SourceFiles : Name(f) = row[1] /\ row[6] = f.ext
              /\ RecordedAsClassified(Lower(row[6]), row[7])

\* a.PDF was imported and its sidecar and its row record the extension PDF
C28_UppercaseRecorded ==
    /\ injected = NoFailure
    /\ Imported(last) /\ last.file.ext = "PDF"
    /\ \E k \in Parseable(sidecars) :
          sidecars[k].meta.file_type = "PDF" /\ sidecars[k].meta.type = "doc"
    /\ \E i \in 2..Len(manifest.lines) :
          manifest.lines[i][6] = "PDF" /\ manifest.lines[i][7] = "doc"

(***************************************************************************)
(* C29.  Append and rebuild agree: after any sequence of imports run one   *)
(* after the other in which every I/O step succeeds, the multiset of data  *)
(* rows of the incrementally maintained manifest equals the multiset of    *)
(* rows a bootstrap export would produce from the sidecar tree at that     *)
(* moment (same rows, same field values, an absent author, series or       *)
(* source giving an empty field in both).                                  *)
(***************************************************************************)
\* the data rows of the manifest are, in some order of enumeration, the rows
\* an export of the tree produces
AgreesWithExport(mf, tree) == DataRows(mf) \in export_rows(ExportTree(tree))

C29_AppendRebuildAgree ==
    (injected = NoFailure /\ manifest.exists) => AgreesWithExport(manifest, sidecars)

\* the same while every row of the manifest still has its own sidecar, under
\* the default library path
C29_AgreeWhileNoSidecarReplaced ==
    (/\ injected = NoFailure /\ manifest.exists
     /\ libKind = "default"
     /\ Len(manifest.lines) = 1 + Cardinality(DOMAIN sidecars))
      => AgreesWithExport(manifest, sidecars)

\* two imports of one file name left two rows and one sidecar
C29_TwoRowsOneSidecar ==
    /\ injected = NoFailure
    /\ libKind = "default"
    /\ ops = 2 /\ Imported(last)
    /\ Len(manifest.lines) = 3
    /\ manifest.lines[2][11] = manifest.lines[3][11]
    /\ Cardinality(DOMAIN sidecars) = 1

(***************************************************************************)
(* C30.  No lost row under concurrency: when two imports of files with     *)
(* different content run with their steps interleaved (also with the       *)
(* manifest absent at the start, so that either may take the bootstrap     *)
(* branch), every import that completes its ManifestUpdate without error   *)
(* has a row for its asset in the final manifest.                          *)
(***************************************************************************)
\* the manifest holds a row of the import
HasRow(mf, r) == \E i \in 2..Len(mf.lines) : RowOfImport(mf.lines[i], r)

\* both imports have ended, and each that completed its manifest update
\* has its row
NoLostRow ==
    (AllEnded /\ procs[1].file.content # procs[2].file.content)
      => \A p \in DOMAIN procs : procs[p].outcome = "done" => HasRow(manifest, procs[p])

C30_NoLostRowInterleaved == sched = "interleaved" => NoLostRow

\* what holds: no row is lost when one import runs after the other
C30_NoLostRowSequential == sched = "sequential" => NoLostRow

\* two imports into different directories both completed with no I/O
\* failure, and the manifest written last lacks the row of one of them
C30_LostRow ==
    /\ sched = "interleaved"
    /\ injected = NoFailure
    /\ AllEnded
    /\ procs[1].file.content # procs[2].file.content
    /\ JsonFilePath(procs[1]) # JsonFilePath(procs[2])
    /\ \A p \in DOMAIN procs : procs[p].outcome = "done"
    /\ \E p \in DOMAIN procs : ~HasRow(manifest, procs[p])

====
